---------------------------- MODULE Spec2Model ----------------------------
(***************************************************************************)
(* Log manager of the Mnemosyne persistent-memory runtime                  *)
(* (usermode/library/mnemosyne/src/log/mgr.c).                             *)
(*                                                                         *)
(* The model follows the C code: the persistent pool (type tags, the pool  *)
(* base word, the backing segment), the volatile manager (registry, the    *)
(* free / active / pending lists, the per-thread recovery list), the two   *)
(* mutexes, and each client-facing entry point split into the steps at     *)
(* which another thread, or a crash, can observe it.                       *)
(*                                                                         *)
(* Conventions                                                             *)
(*  - A list_head list is a sequence of slot numbers, head first.          *)
(*  - list_del_init followed by list_add(_tail) of the same descriptor is  *)
(*    one step (no other code reads the descriptor's linkage in between).  *)
(*  - An assertion failure, a call through a NULL function pointer and a   *)
(*    NULL dereference end the process: volatile state is lost, persistent *)
(*    state stays (Abort).  Crash is the same, caused from outside.        *)
(*  - malloc/calloc are taken to succeed.                                  *)
(*  - The build evaluates assert() arguments (no NDEBUG).                  *)
(***************************************************************************)
EXTENDS Integers, Sequences, FiniteSets, TLC

\* Number of log slots in the pool (LOG_NUM; 32 in the reference build).
NumSlots == 3

\* Largest recovery order a log hands out in the model.
MaxOrder == 2

\* Saturation value of the ghost call counters.
MaxCalls == 3

\* Calls the first client thread makes in the concurrent specification; the
\* other threads make one call less.
MaxConcCalls == 2

\* "No limit" on the calls a thread makes.
UNLIMITED == 0 - 1

Slots == 1..NumSlots

Threads == {1, 2}

\* "No descriptor": the NULL m_log_dsc_t pointer.
NULL_DSC == 0

\* "No thread": an unlocked mutex.
NOBODY == 0

\* logorder of a descriptor with nothing (more) to recover.
INV_LOG_ORDER == 0

Orders == 1..MaxOrder

\* Type tags.  generic_flags & LF_TYPE_MASK.
LF_TYPE_FREE == 0

\* Types 1 .. LF_TYPE_VALIDVALUES-1 are registered at bring-up.
LF_TYPE_VALIDVALUES == 2

StaticTypes == 1..(LF_TYPE_VALIDVALUES - 1)

\* Types a client registers later.
ClientTypes == {2, 3}

\* Every tag value of the model, LF_TYPE_FREE included.
TypeIds == {LF_TYPE_FREE} \cup StaticTypes \cup ClientTypes

(***************************************************************************)
(* Operations tables (m_log_ops_t).  A table is named; what matters to the *)
(* manager is which of its five function pointers are non-NULL.            *)
(***************************************************************************)
NULL_OPS == "NULL"

\* &static_log_ops[i]: every entry is NULL_LOG_OPS.
StaticOps(i) == "static_log_ops"

\* Tables clients pass to m_logmgr_register_logtype: opsR implements all
\* five operations, opsN implements alloc and init only.
ClientOps == {"opsR", "opsN"}

OpsTables == {NULL_OPS} \cup {StaticOps(i) : i \in StaticTypes} \cup ClientOps

HasAlloc(o) == o \in ClientOps

HasInit(o) == o \in ClientOps

HasRecoveryInit(o) == o = "opsR"

HasRecoveryDo(o) == o = "opsR"

HasRecoveryPrepareNext(o) == o = "opsR"

(***************************************************************************)
(* State                                                                   *)
(***************************************************************************)
VARIABLES
  \* persistent memory
  tag,                 \* tag[s]: nvmd->generic_flags & LF_TYPE_MASK of slot s
  log_pool,            \* the PERSISTENT word log_pool
  segment,             \* a segment exists at LOG_POOL_START
  \* process-wide volatile state
  logmgr,              \* the published manager pointer
  logmgr_initialized,
  logmgr_init_lock,    \* holder of the bring-up mutex
  mgr_mutex,           \* holder of mgr->mutex
  known_logtypes_list, \* registry: sequence of [type, ops]
  free_logs_list,
  active_logs_list,
  pending_logs_list,
  dsc_ops,             \* dsc_ops[s]: log_dscs[s].ops
  dsc_log,             \* dsc_log[s]: log_dscs[s].log # NULL
  logorder,            \* logorder[s]: log_dscs[s].logorder
  \* per thread: program counter and locals
  th,
  \* history
  created,             \* create_log_pool built the descriptors
  bringups,            \* executions of the bring-up body in this process
  nalloc,              \* nalloc[s]: ops->alloc calls on slot s in this process
  ninit,               \* ninit[s]: ops->init calls on slot s in this process
  nret,                \* nret[s]: successful allocations that nret slot s
  crashed_alloc,       \* the allocation the last crash interrupted, if any,
                       \* until the next process has classified the slots
  calls_left           \* calls_left[t]: calls thread t may still start

persistent == <<tag, log_pool, segment>>

manager == <<logmgr, logmgr_initialized, known_logtypes_list, free_logs_list,
             active_logs_list, pending_logs_list, dsc_ops, dsc_log, logorder>>

locks == <<logmgr_init_lock, mgr_mutex>>

history == <<created, bringups, nalloc, ninit, nret, crashed_alloc, calls_left>>

vars == <<persistent, manager, locks, th, history>>

(***************************************************************************)
(* Lists                                                                   *)
(***************************************************************************)
Range(l) == {l[i] : i \in 1..Len(l)}

InList(l, d) == \E i \in 1..Len(l) : l[i] = d

\* list_del_init(&d->list)
MutantListDel(l, d) == l

ListDel(l, d) == SelectSeq(l, LAMBDA x : x # d)

\* list_add_tail(&d->list, &l)
ListAddTail(l, d) == Append(l, d)

\* list_add(&d->list, &l)
ListAdd(l, d) == <<d>> \o l

\* list_splice(&from, &to): from's entries go in front of to's.
ListSplice(from, to) == from \o to

\* First entry of a list, or NULL_DSC: how list_for_each_entry starts.
FirstEntry(l) == IF l = <<>> THEN NULL_DSC ELSE Head(l)

\* The entry after d; NULL_DSC when d is the last one (the iteration meets
\* the list head and stops).
NextEntry(l, d) ==
  LET i == CHOOSE j \in 1..Len(l) : l[j] = d
  IN  IF i = Len(l) THEN NULL_DSC ELSE l[i + 1]

\* First descriptor of the list whose persisted tag is ty, or NULL_DSC.
RECURSIVE FirstWithTag(_, _)
FirstWithTag(l, ty) ==
  IF l = <<>> THEN NULL_DSC
  ELSE IF tag[Head(l)] = ty THEN Head(l)
  ELSE FirstWithTag(Tail(l), ty)

(***************************************************************************)
(* Registry                                                                *)
(***************************************************************************)
Registered(ty) ==
  \E i \in 1..Len(known_logtypes_list) : known_logtypes_list[i].type = ty

\* The ops of the first entry for ty (callers check Registered first).
Lookup(ty) ==
  LET i == CHOOSE j \in 1..Len(known_logtypes_list) :
             /\ known_logtypes_list[j].type = ty
             /\ \A k \in 1..(j - 1) : known_logtypes_list[k].type # ty
  IN  known_logtypes_list[i].ops

(***************************************************************************)
(* Threads                                                                 *)
(***************************************************************************)
IdleLocals ==
  [pc |-> "idle", type |-> LF_TYPE_FREE, ops |-> NULL_OPS, dsc |-> NULL_DSC,
   rlist |-> <<>>, sel |-> NULL_DSC, path |-> "none", iret |-> "idle",
   cret |-> "idle", addr |-> "zero", rv |-> "none", snap |-> {},
   given |-> [s \in Slots |-> <<>>], done |-> [s \in Slots |-> <<>>]]

NoCrashedAlloc == [slot |-> NULL_DSC, path |-> "none", type |-> LF_TYPE_FREE]

Inc(n) == IF n < MaxCalls THEN n + 1 ELSE MaxCalls

(***************************************************************************)
(* Initial state: a machine on which the pool was never created.           *)
(***************************************************************************)
VolatileInit ==
  /\ logmgr = "NULL"
  /\ logmgr_initialized = FALSE
  /\ logmgr_init_lock = NOBODY
  /\ mgr_mutex = NOBODY
  /\ known_logtypes_list = <<>>
  /\ free_logs_list = <<>>
  /\ active_logs_list = <<>>
  /\ pending_logs_list = <<>>
  /\ dsc_ops = [s \in Slots |-> NULL_OPS]
  /\ dsc_log = [s \in Slots |-> FALSE]
  /\ logorder = [s \in Slots |-> INV_LOG_ORDER]
  /\ th = [t \in Threads |-> IdleLocals]
  /\ created = FALSE
  /\ bringups = 0
  /\ nalloc = [s \in Slots |-> 0]
  /\ ninit = [s \in Slots |-> 0]
  /\ nret = [s \in Slots |-> 0]

Init ==
  /\ tag = [s \in Slots |-> LF_TYPE_FREE]
  /\ log_pool = "zero"
  /\ segment = FALSE
  /\ crashed_alloc = NoCrashedAlloc
  /\ calls_left = [t \in Threads |-> UNLIMITED]
  /\ VolatileInit

(***************************************************************************)
(* Process death.  Everything volatile is lost; the next process starts    *)
(* from the persistent state.                                              *)
(***************************************************************************)
Die(rec) ==
  /\ logmgr' = "NULL"
  /\ logmgr_initialized' = FALSE
  /\ logmgr_init_lock' = NOBODY
  /\ mgr_mutex' = NOBODY
  /\ known_logtypes_list' = <<>>
  /\ free_logs_list' = <<>>
  /\ active_logs_list' = <<>>
  /\ pending_logs_list' = <<>>
  /\ dsc_ops' = [s \in Slots |-> NULL_OPS]
  /\ dsc_log' = [s \in Slots |-> FALSE]
  /\ logorder' = [s \in Slots |-> INV_LOG_ORDER]
  /\ th' = [t \in Threads |-> IdleLocals]
  /\ created' = FALSE
  /\ bringups' = 0
  /\ nalloc' = [s \in Slots |-> 0]
  /\ ninit' = [s \in Slots |-> 0]
  /\ nret' = [s \in Slots |-> 0]
  /\ crashed_alloc' = rec
  /\ UNCHANGED <<persistent, calls_left>>

\* assert() failure, NULL call, NULL dereference.
Abort == Die(NoCrashedAlloc)

\* A crash (power failure, kill).  It remembers the allocation, if any,
\* that had finished ops->init and not yet stored the tag.
Crash ==
  IF \E t \in Threads : th[t].pc = "a_store"
  THEN LET t == CHOOSE u \in Threads : th[u].pc = "a_store"
       IN  Die([slot |-> th[t].dsc, path |-> th[t].path, type |-> th[t].type])
  ELSE Die(NoCrashedAlloc)


(***************************************************************************)
(* Client calls.  A thread that is idle enters one of the four entry       *)
(* points.  A call's result is rv in the state before it returns.          *)
(***************************************************************************)
Enter(t, pc0, ty, o) ==
  /\ th[t].pc = "idle"
  /\ calls_left[t] # 0
  /\ calls_left' = [calls_left EXCEPT
                      ![t] = IF @ = UNLIMITED THEN UNLIMITED ELSE @ - 1]
  /\ th' = [th EXCEPT ![t] = [IdleLocals EXCEPT !.pc = pc0, !.type = ty, !.ops = o]]
  /\ UNCHANGED <<persistent, manager, locks, created, bringups, nalloc, ninit,
                 nret, crashed_alloc>>

\* m_logmgr_init()
CallInit(t) == Enter(t, "i_lock", LF_TYPE_FREE, NULL_OPS)

\* m_logmgr_register_logtype(type, ops)
CallRegister(t) ==
  \E ty \in ClientTypes \cup StaticTypes, o \in ClientOps : Enter(t, "r_check", ty, o)

\* m_logmgr_do_recovery()
CallRecovery(t) == Enter(t, "c_start", LF_TYPE_FREE, NULL_OPS)

\* m_logmgr_alloc_log(type, &log_dsc)
CallAlloc(t) == \E ty \in TypeIds : Enter(t, "a_lock", ty, NULL_OPS)

(***************************************************************************)
(* logmgr_init                                                             *)
(***************************************************************************)
\* pthread_mutex_lock(&logmgr_init_lock)
InitLock(t) ==
  /\ th[t].pc = "i_lock"
  /\ logmgr_init_lock = NOBODY
  /\ logmgr_init_lock' = t
  /\ th' = [th EXCEPT ![t].pc = "i_check"]
  /\ UNCHANGED <<persistent, manager, mgr_mutex, history>>

\* The body starts: malloc of the manager, its mutex and its four lists.
InitBody(t) ==
  /\ known_logtypes_list' = <<>>
  /\ free_logs_list' = <<>>
  /\ active_logs_list' = <<>>
  /\ pending_logs_list' = <<>>
  /\ mgr_mutex' = NOBODY
  /\ bringups' = Inc(bringups)
  /\ th' = [th EXCEPT ![t].pc = "i_pool"]
  /\ UNCHANGED <<persistent, logmgr, logmgr_initialized, dsc_ops, dsc_log,
                 logorder, logmgr_init_lock, created, nalloc, ninit, nret,
                 crashed_alloc, calls_left>>

\* if (logmgr_initialized) { rv = M_R_SUCCESS; goto out; }
MutantInitCheck(t) ==
  /\ th[t].pc = "i_check"
  /\ InitBody(t)

InitCheck(t) ==
  /\ th[t].pc = "i_check"
  /\ IF logmgr_initialized
     THEN /\ th' = [th EXCEPT ![t].pc = "i_out", ![t].rv = "success"]
          /\ UNCHANGED <<persistent, manager, locks, history>>
     ELSE InitBody(t)

\* create_log_pool, first half: find or map the segment.  When the segment
\* is found, addr is never assigned: it holds whatever the stack held.
CreatePoolMap(t) ==
  /\ th[t].pc = "i_pool"
  /\ IF log_pool = "zero"
     THEN IF ~segment
          THEN /\ segment' = TRUE
               /\ th' = [th EXCEPT ![t].pc = "i_store", ![t].addr = "LOG_POOL_START"]
          ELSE /\ \E a \in {"zero", "LOG_POOL_START", "garbage"} :
                    th' = [th EXCEPT ![t].pc = "i_store", ![t].addr = a]
               /\ UNCHANGED segment
     ELSE /\ th' = [th EXCEPT ![t].pc = "i_dscs"]
          /\ UNCHANGED segment
  /\ UNCHANGED <<tag, log_pool, manager, locks, history>>

\* PCM_STORE(&log_pool, (uintptr_t) addr); PCM_BARRIER
CreatePoolStore(t) ==
  /\ th[t].pc = "i_store"
  /\ log_pool' = th[t].addr
  /\ th' = [th EXCEPT ![t].pc = "i_dscs", ![t].addr = "zero"]
  /\ UNCHANGED <<tag, segment, manager, locks, history>>

\* The classification loop of create_log_pool: slot order, list_add_tail.
MutantClassify(free) ==
  SelectSeq([i \in 1..NumSlots |-> i],
            LAMBDA s : (tag[s] # LF_TYPE_FREE) = free)

Classify(free) ==
  SelectSeq([i \in 1..NumSlots |-> i],
            LAMBDA s : (tag[s] = LF_TYPE_FREE) = free)

CreateDescriptors(t) ==
  /\ th[t].pc = "i_dscs"
  /\ dsc_ops' = [s \in Slots |-> NULL_OPS]
  /\ dsc_log' = [s \in Slots |-> FALSE]
  /\ logorder' = [s \in Slots |-> INV_LOG_ORDER]
  /\ free_logs_list' = free_logs_list \o Classify(TRUE)
  /\ pending_logs_list' = pending_logs_list \o Classify(FALSE)
  /\ created' = TRUE
  /\ crashed_alloc' = NoCrashedAlloc
  /\ th' = [th EXCEPT ![t].pc = "i_static"]
  /\ UNCHANGED <<persistent, logmgr, logmgr_initialized, known_logtypes_list,
                 active_logs_list, locks, bringups, nalloc, ninit, nret,
                 calls_left>>

\* register_static_logtypes: register_logtype(mgr, i, &static_log_ops[i], 0)
\* for i = 1 .. LF_TYPE_VALIDVALUES-1.  The manager is not published yet, so
\* the loop is one step.  A pending descriptor of a built-in type gets the
\* static table and a call through its NULL alloc pointer.
StaticEntries ==
  SelectSeq([i \in 1..(LF_TYPE_VALIDVALUES - 1) |-> [type |-> i, ops |-> StaticOps(i)]],
            LAMBDA e : ~Registered(e.type))

RegisterStatic(t) ==
  /\ th[t].pc = "i_static"
  /\ IF \E d \in Range(pending_logs_list) :
          /\ tag[d] \in StaticTypes
          /\ ~Registered(tag[d])
          /\ ~HasAlloc(StaticOps(tag[d]))
     THEN Abort
     ELSE /\ known_logtypes_list' = known_logtypes_list \o StaticEntries
          /\ th' = [th EXCEPT ![t].pc = "c_start", ![t].cret = "i_publish"]
          /\ UNCHANGED <<persistent, logmgr, logmgr_initialized, free_logs_list,
                         active_logs_list, pending_logs_list, dsc_ops, dsc_log,
                         logorder, locks, history>>

\* logmgr = mgr;
Publish(t) ==
  /\ th[t].pc = "i_publish"
  /\ logmgr' = "mgr"
  /\ th' = [th EXCEPT ![t].pc = "i_flag"]
  /\ UNCHANGED <<persistent, logmgr_initialized, known_logtypes_list,
                 free_logs_list, active_logs_list, pending_logs_list, dsc_ops,
                 dsc_log, logorder, locks, history>>

\* logmgr_initialized = 1; m_logtrunc_init(logmgr); rv = M_R_SUCCESS;
SetInitialized(t) ==
  /\ th[t].pc = "i_flag"
  /\ logmgr_initialized' = TRUE
  /\ th' = [th EXCEPT ![t].pc = "i_out", ![t].rv = "success"]
  /\ UNCHANGED <<persistent, logmgr, known_logtypes_list, free_logs_list,
                 active_logs_list, pending_logs_list, dsc_ops, dsc_log,
                 logorder, locks, history>>

\* out: pthread_mutex_unlock(&logmgr_init_lock); return rv;
\* m_logmgr_register_logtype ignores the result and goes on.
InitOut(t) ==
  /\ th[t].pc = "i_out"
  /\ logmgr_init_lock' = NOBODY
  /\ th' = [th EXCEPT ![t].pc = th[t].iret, ![t].iret = "idle", ![t].rv = "none"]
  /\ UNCHANGED <<persistent, manager, mgr_mutex, history>>

(***************************************************************************)
(* do_recovery                                                             *)
(***************************************************************************)
\* INIT_LIST_HEAD(&recovery_list) and the start of the scan of the pending
\* list.  m_logmgr_do_recovery passes logmgr as it is: NULL before bring-up.
\* snap (history) is the set of pending descriptors whose ops expose
\* recovery_init when the call starts.
RecStart(t) ==
  /\ th[t].pc = "c_start"
  /\ IF th[t].cret = "idle" /\ logmgr = "NULL"
     THEN Abort
     ELSE /\ th' = [th EXCEPT ![t].pc = "c_collect", ![t].rlist = <<>>,
                              ![t].dsc = FirstEntry(pending_logs_list),
                              ![t].snap = {d \in Range(pending_logs_list) :
                                             /\ dsc_ops[d] # NULL_OPS
                                             /\ HasRecoveryInit(dsc_ops[d])}]
          /\ UNCHANGED <<persistent, manager, locks, history>>

\* What ops->recovery_init may leave in logorder: an order, or none.
RecoveryInitOrders == Orders \cup {INV_LOG_ORDER}

\* What ops->recovery_prepare_next may leave in logorder after order o: a
\* later order, or none.
PrepareNextOrders(o) == {n \in Orders : n > o} \cup {INV_LOG_ORDER}

\* The recovery sequence of a slot so far (history): the orders its log has
\* handed out, extended when a callback leaves an order other than none.
Handed(seq, o) == IF o = INV_LOG_ORDER THEN seq ELSE Append(seq, o)

\* if (log_dsc->ops && log_dsc->ops->recovery_init)
MutantRecoverable(d) == TRUE

Recoverable(d) == dsc_ops[d] # NULL_OPS /\ HasRecoveryInit(dsc_ops[d])

\* One iteration of list_for_each_entry_safe over the pending list.
MutantRecCollect(t) ==
  /\ th[t].pc = "c_collect"
  /\ LET d == th[t].dsc IN
     IF d = NULL_DSC
     THEN /\ th' = [th EXCEPT ![t].pc = "c_select"]
          /\ UNCHANGED <<persistent, manager, locks, history>>
     ELSE LET nxt == NextEntry(pending_logs_list, d) IN
          IF dsc_ops[d] # NULL_OPS
          THEN /\ \E o \in RecoveryInitOrders :
                    /\ logorder' = [logorder EXCEPT ![d] = o]
                    /\ th' = [th EXCEPT ![t].dsc = nxt,
                                        ![t].rlist = ListAdd(th[t].rlist, d),
                                        ![t].given[d] = Handed(@, o)]
               /\ pending_logs_list' = ListDel(pending_logs_list, d)
               /\ UNCHANGED <<persistent, logmgr, logmgr_initialized,
                              known_logtypes_list, free_logs_list,
                              active_logs_list, dsc_ops, dsc_log, locks, history>>
          ELSE /\ th' = [th EXCEPT ![t].dsc = nxt]
               /\ UNCHANGED <<persistent, manager, locks, history>>

RecCollect(t) ==
  /\ th[t].pc = "c_collect"
  /\ LET d == th[t].dsc IN
     IF d = NULL_DSC
     THEN /\ th' = [th EXCEPT ![t].pc = "c_select"]
          /\ UNCHANGED <<persistent, manager, locks, history>>
     ELSE LET nxt == NextEntry(pending_logs_list, d) IN
          IF Recoverable(d)
          THEN /\ \E o \in RecoveryInitOrders :
                    /\ logorder' = [logorder EXCEPT ![d] = o]
                    /\ th' = [th EXCEPT ![t].dsc = nxt,
                                        ![t].rlist = ListAdd(th[t].rlist, d),
                                        ![t].given[d] = Handed(@, o)]
               /\ pending_logs_list' = ListDel(pending_logs_list, d)
               /\ UNCHANGED <<persistent, logmgr, logmgr_initialized,
                              known_logtypes_list, free_logs_list,
                              active_logs_list, dsc_ops, dsc_log, locks, history>>
          ELSE /\ th' = [th EXCEPT ![t].dsc = nxt]
               /\ UNCHANGED <<persistent, manager, locks, history>>

\* The scan of the recovery list that picks log_dsc_to_recover.
RECURSIVE SelectFrom(_, _)
SelectFrom(l, best) ==
  IF l = <<>> THEN best
  ELSE LET d == Head(l) IN
       IF logorder[d] = INV_LOG_ORDER THEN SelectFrom(Tail(l), best)
       ELSE IF best = NULL_DSC THEN SelectFrom(Tail(l), d)
       ELSE IF logorder[best] > logorder[d] THEN SelectFrom(Tail(l), d)
       ELSE SelectFrom(Tail(l), best)

RECURSIVE MutantSelectFrom(_, _)
MutantSelectFrom(l, best) ==
  IF l = <<>> THEN best
  ELSE LET d == Head(l) IN
       IF logorder[d] = INV_LOG_ORDER THEN MutantSelectFrom(Tail(l), best)
       ELSE IF best = NULL_DSC THEN MutantSelectFrom(Tail(l), d)
       ELSE IF logorder[best] >= logorder[d] THEN MutantSelectFrom(Tail(l), d)
       ELSE MutantSelectFrom(Tail(l), best)

MutantSelect(l) == MutantSelectFrom(l, NULL_DSC)

Select(l) == SelectFrom(l, NULL_DSC)

RecSelect(t) ==
  /\ th[t].pc = "c_select"
  /\ LET d == Select(th[t].rlist) IN
     th' = [th EXCEPT ![t].sel = d,
                      ![t].pc = IF d = NULL_DSC THEN "c_splice" ELSE "c_do"]
  /\ UNCHANGED <<persistent, manager, locks, history>>

\* The three asserts, then ops->recovery_do(log_dsc_to_recover).
RecDo(t) ==
  /\ th[t].pc = "c_do"
  /\ LET o == dsc_ops[th[t].sel] IN
     IF o = NULL_OPS \/ ~HasRecoveryDo(o) \/ ~HasRecoveryPrepareNext(o)
     THEN Abort
     ELSE /\ th' = [th EXCEPT ![t].pc = "c_prep",
                              ![t].done[th[t].sel] = Append(@, logorder[th[t].sel])]
          /\ UNCHANGED <<persistent, manager, locks, history>>

\* ops->recovery_prepare_next(log_dsc_to_recover)
MutantRecPrepareNext(t) ==
  /\ th[t].pc = "c_prep"
  /\ th' = [th EXCEPT ![t].pc = "c_select"]
  /\ UNCHANGED <<persistent, manager, locks, history>>

RecPrepareNext(t) ==
  /\ th[t].pc = "c_prep"
  /\ \E o \in PrepareNextOrders(logorder[th[t].sel]) :
       /\ logorder' = [logorder EXCEPT ![th[t].sel] = o]
       /\ th' = [th EXCEPT ![t].pc = "c_select",
                           ![t].given[th[t].sel] = Handed(@, o)]
  /\ UNCHANGED <<persistent, logmgr, logmgr_initialized, known_logtypes_list,
                 free_logs_list, active_logs_list, pending_logs_list, dsc_ops,
                 dsc_log, locks, history>>

\* list_splice(&recovery_list, &(mgr->free_logs_list)); return M_R_SUCCESS;
MutantSpliceTarget(t) == pending_logs_list' = ListSplice(th[t].rlist, pending_logs_list)
                         /\ UNCHANGED free_logs_list

SpliceTarget(t) == free_logs_list' = ListSplice(th[t].rlist, free_logs_list)
                   /\ UNCHANGED pending_logs_list

RecSplice(t) ==
  /\ th[t].pc = "c_splice"
  /\ SpliceTarget(t)
  /\ th' = [th EXCEPT ![t].pc = th[t].cret, ![t].cret = "idle", ![t].rlist = <<>>,
                      ![t].sel = NULL_DSC, ![t].dsc = NULL_DSC, ![t].snap = {},
                      ![t].given = IdleLocals.given, ![t].done = IdleLocals.done]
  /\ UNCHANGED <<persistent, logmgr, logmgr_initialized, known_logtypes_list,
                 active_logs_list, dsc_ops, dsc_log, logorder, locks, history>>

(***************************************************************************)
(* m_logmgr_register_logtype, register_logtype(mgr, type, ops, 1)          *)
(***************************************************************************)
\* if (!logmgr) logmgr_init();
RegCheck(t) ==
  /\ th[t].pc = "r_check"
  /\ th' = [th EXCEPT ![t].pc = IF logmgr = "NULL" THEN "i_lock" ELSE "r_lock",
                      ![t].iret = IF logmgr = "NULL" THEN "r_lock" ELSE "idle"]
  /\ UNCHANGED <<persistent, manager, locks, history>>

\* pthread_mutex_lock(&(mgr->mutex))
RegLock(t) ==
  /\ th[t].pc = "r_lock"
  /\ mgr_mutex = NOBODY
  /\ mgr_mutex' = t
  /\ th' = [th EXCEPT ![t].pc = "r_find"]
  /\ UNCHANGED <<persistent, manager, logmgr_init_lock, history>>

\* The registry scan: "already registered, nothing need to be done".
MutantAlreadyRegistered(ty) == FALSE

AlreadyRegistered(ty) == Registered(ty)

\* Already registered: success.  Otherwise the entry is appended and the
\* scan of the pending list starts.
RegFind(t) ==
  /\ th[t].pc = "r_find"
  /\ IF AlreadyRegistered(th[t].type)
     THEN /\ th' = [th EXCEPT ![t].pc = "r_out", ![t].rv = "success"]
          /\ UNCHANGED <<persistent, manager, locks, history>>
     ELSE /\ known_logtypes_list' =
               Append(known_logtypes_list, [type |-> th[t].type, ops |-> th[t].ops])
          /\ th' = [th EXCEPT ![t].pc = "r_scan",
                              ![t].dsc = FirstEntry(pending_logs_list)]
          /\ UNCHANGED <<persistent, logmgr, logmgr_initialized, free_logs_list,
                         active_logs_list, pending_logs_list, dsc_ops, dsc_log,
                         logorder, locks, history>>

\* if ((log_dsc->nvmd->generic_flags & LF_TYPE_MASK) == type) log_dsc->ops = ops;
MutantRegScan(t) ==
  /\ th[t].pc = "r_scan"
  /\ LET d == th[t].dsc IN
     IF d = NULL_DSC
     THEN /\ th' = [th EXCEPT ![t].pc = "r_out", ![t].rv = "success"]
          /\ UNCHANGED <<persistent, manager, locks, history>>
     ELSE /\ dsc_ops' = [dsc_ops EXCEPT ![d] = th[t].ops]
          /\ th' = [th EXCEPT ![t].pc = "r_alloc"]
          /\ UNCHANGED <<persistent, logmgr, logmgr_initialized,
                         known_logtypes_list, free_logs_list, active_logs_list,
                         pending_logs_list, dsc_log, logorder, locks, history>>

RegScan(t) ==
  /\ th[t].pc = "r_scan"
  /\ LET d == th[t].dsc IN
     IF d = NULL_DSC
     THEN /\ th' = [th EXCEPT ![t].pc = "r_out", ![t].rv = "success"]
          /\ UNCHANGED <<persistent, manager, locks, history>>
     ELSE IF tag[d] = th[t].type
     THEN /\ dsc_ops' = [dsc_ops EXCEPT ![d] = th[t].ops]
          /\ th' = [th EXCEPT ![t].pc = "r_alloc"]
          /\ UNCHANGED <<persistent, logmgr, logmgr_initialized,
                         known_logtypes_list, free_logs_list, active_logs_list,
                         pending_logs_list, dsc_log, logorder, locks, history>>
     ELSE /\ th' = [th EXCEPT ![t].pc = "r_next"]
          /\ UNCHANGED <<persistent, manager, locks, history>>

\* assert(log_dsc->ops->alloc(log_dsc) == M_R_SUCCESS);
RegAlloc(t) ==
  /\ th[t].pc = "r_alloc"
  /\ LET d == th[t].dsc IN
     IF ~HasAlloc(dsc_ops[d])
     THEN Abort
     ELSE /\ dsc_log' = [dsc_log EXCEPT ![d] = TRUE]
          /\ nalloc' = [nalloc EXCEPT ![d] = Inc(nalloc[d])]
          /\ th' = [th EXCEPT ![t].pc = "r_next"]
          /\ UNCHANGED <<persistent, logmgr, logmgr_initialized,
                         known_logtypes_list, free_logs_list, active_logs_list,
                         pending_logs_list, dsc_ops, logorder, locks, created,
                         bringups, ninit, nret, crashed_alloc, calls_left>>

\* The step of list_for_each_entry to the next pending descriptor.  When a
\* concurrent do_recovery has taken the current descriptor off the pending
\* list, the walk has left the list and never meets its head again: it
\* dereferences a list head as a descriptor (Abort) or circles (r_hang).
RegNext(t) ==
  /\ th[t].pc = "r_next"
  /\ IF InList(pending_logs_list, th[t].dsc)
     THEN /\ th' = [th EXCEPT ![t].pc = "r_scan",
                              ![t].dsc = NextEntry(pending_logs_list, th[t].dsc)]
          /\ UNCHANGED <<persistent, manager, locks, history>>
     ELSE \/ /\ th' = [th EXCEPT ![t].pc = "r_hang"]
             /\ UNCHANGED <<persistent, manager, locks, history>>
          \/ Abort

\* out: pthread_mutex_unlock(&(mgr->mutex)); return rv;
RegOut(t) ==
  /\ th[t].pc = "r_out"
  /\ mgr_mutex' = NOBODY
  /\ th' = [th EXCEPT ![t] = IdleLocals]
  /\ UNCHANGED <<persistent, manager, logmgr_init_lock, history>>

(***************************************************************************)
(* m_logmgr_alloc_log                                                      *)
(***************************************************************************)
\* pthread_mutex_lock(&logmgr_init_lock)
MutantAllocLock(t) ==
  /\ th[t].pc = "a_lock"
  /\ logmgr_init_lock' = t
  /\ th' = [th EXCEPT ![t].pc = "a_scan"]
  /\ UNCHANGED <<persistent, manager, mgr_mutex, history>>

AllocLock(t) ==
  /\ th[t].pc = "a_lock"
  /\ logmgr_init_lock = NOBODY
  /\ logmgr_init_lock' = t
  /\ th' = [th EXCEPT ![t].pc = "a_scan"]
  /\ UNCHANGED <<persistent, manager, mgr_mutex, history>>

\* The scan of the free list and the choice that follows it: free_log_dsc
\* (first descriptor tagged type) is preferred to free_log_dsc_notype (first
\* descriptor tagged LF_TYPE_FREE).  The result is <<descriptor, path>>.
MutantChoose(ty) ==
  LET f == FirstWithTag(free_logs_list, ty)
      n == FirstWithTag(free_logs_list, LF_TYPE_FREE)
  IN  IF n # NULL_DSC THEN <<n, "notype">>
      ELSE IF f # NULL_DSC THEN <<f, "match">>
      ELSE <<NULL_DSC, "none">>

Choose(ty) ==
  LET f == FirstWithTag(free_logs_list, ty)
      n == FirstWithTag(free_logs_list, LF_TYPE_FREE)
  IN  IF f # NULL_DSC THEN <<f, "match">>
      ELSE IF n # NULL_DSC THEN <<n, "notype">>
      ELSE <<NULL_DSC, "none">>

\* logmgr is dereferenced without a check: NULL before bring-up.
MutantAllocScan(t) ==
  /\ th[t].pc = "a_scan"
  /\ IF logmgr = "NULL"
     THEN Abort
     ELSE /\ LET c == IF Choose(th[t].type)[2] = "none" /\ free_logs_list # <<>>
                      THEN <<Head(free_logs_list), "match">>
                      ELSE Choose(th[t].type) IN
             th' = [th EXCEPT ![t].dsc = c[1], ![t].path = c[2],
                              ![t].pc = CASE c[2] = "match" -> "a_move"
                                          [] c[2] = "notype" -> "a_bind"
                                          [] OTHER -> "a_out",
                              ![t].rv = IF c[2] = "none" THEN "failure" ELSE "none"]
          /\ UNCHANGED <<persistent, manager, locks, history>>

AllocScan(t) ==
  /\ th[t].pc = "a_scan"
  /\ IF logmgr = "NULL"
     THEN Abort
     ELSE /\ LET c == Choose(th[t].type) IN
             th' = [th EXCEPT ![t].dsc = c[1], ![t].path = c[2],
                              ![t].pc = CASE c[2] = "match" -> "a_move"
                                          [] c[2] = "notype" -> "a_bind"
                                          [] OTHER -> "a_out",
                              ![t].rv = IF c[2] = "none" THEN "failure" ELSE "none"]
          /\ UNCHANGED <<persistent, manager, locks, history>>

\* The registry lookup for an untyped descriptor: on a hit, the ops are
\* bound and ops->alloc is called; then "if (!log_dsc->ops)" is unknown type.
MutantAllocBind(t) ==
  /\ th[t].pc = "a_bind"
  /\ Registered(th[t].type)
  /\ HasAlloc(Lookup(th[t].type))
  /\ dsc_ops' = [dsc_ops EXCEPT ![th[t].dsc] = Lookup(th[t].type)]
  /\ dsc_log' = [dsc_log EXCEPT ![th[t].dsc] = TRUE]
  /\ nalloc' = [nalloc EXCEPT ![th[t].dsc] = Inc(nalloc[th[t].dsc])]
  /\ tag' = [tag EXCEPT ![th[t].dsc] = th[t].type]
  /\ th' = [th EXCEPT ![t].pc = "a_move"]
  /\ UNCHANGED <<log_pool, segment, logmgr, logmgr_initialized,
                 known_logtypes_list, free_logs_list, active_logs_list,
                 pending_logs_list, logorder, locks, created, bringups, ninit,
                 nret, crashed_alloc, calls_left>>

AllocBind(t) ==
  /\ th[t].pc = "a_bind"
  /\ LET d == th[t].dsc IN
     IF Registered(th[t].type)
     THEN IF ~HasAlloc(Lookup(th[t].type))
          THEN Abort
          ELSE /\ dsc_ops' = [dsc_ops EXCEPT ![d] = Lookup(th[t].type)]
               /\ dsc_log' = [dsc_log EXCEPT ![d] = TRUE]
               /\ nalloc' = [nalloc EXCEPT ![d] = Inc(nalloc[d])]
               /\ th' = [th EXCEPT ![t].pc = "a_move"]
               /\ UNCHANGED <<persistent, logmgr, logmgr_initialized,
                              known_logtypes_list, free_logs_list,
                              active_logs_list, pending_logs_list, logorder,
                              locks, created, bringups, ninit, nret,
                              crashed_alloc, calls_left>>
     ELSE /\ th' = [th EXCEPT ![t].pc = IF dsc_ops[d] = NULL_OPS THEN "a_out" ELSE "a_move",
                              ![t].rv = IF dsc_ops[d] = NULL_OPS THEN "failure" ELSE "none"]
          /\ UNCHANGED <<persistent, manager, locks, history>>

\* list_del_init(&(log_dsc->list));
\* list_add_tail(&(log_dsc->list), &(logmgr->active_logs_list));
MutantAllocMove(t) ==
  /\ th[t].pc = "a_move"
  /\ active_logs_list' = ListAddTail(active_logs_list, th[t].dsc)
  /\ th' = [th EXCEPT ![t].pc = "a_init"]
  /\ UNCHANGED <<persistent, logmgr, logmgr_initialized, known_logtypes_list,
                 free_logs_list, pending_logs_list, dsc_ops, dsc_log, logorder,
                 locks, history>>

AllocMove(t) ==
  /\ th[t].pc = "a_move"
  /\ free_logs_list' = ListDel(free_logs_list, th[t].dsc)
  /\ active_logs_list' = ListAddTail(active_logs_list, th[t].dsc)
  /\ th' = [th EXCEPT ![t].pc = "a_init"]
  /\ UNCHANGED <<persistent, logmgr, logmgr_initialized, known_logtypes_list,
                 pending_logs_list, dsc_ops, dsc_log, logorder, locks, history>>

\* assert(log_dsc->ops && log_dsc->ops->init);
\* assert(log_dsc->ops->init(log_dsc->log, log_dsc) == M_R_SUCCESS);
AllocInit(t) ==
  /\ th[t].pc = "a_init"
  /\ LET d == th[t].dsc IN
     IF dsc_ops[d] = NULL_OPS \/ ~HasInit(dsc_ops[d])
     THEN Abort
     ELSE /\ ninit' = [ninit EXCEPT ![d] = Inc(ninit[d])]
          /\ th' = [th EXCEPT ![t].pc = "a_store"]
          /\ UNCHANGED <<persistent, manager, locks, created, bringups, nalloc,
                         nret, crashed_alloc, calls_left>>

\* PCM_STORE(&nvmd->generic_flags, (generic_flags & ~LF_TYPE_MASK) | type);
AllocStore(t) ==
  /\ th[t].pc = "a_store"
  /\ tag' = [tag EXCEPT ![th[t].dsc] = th[t].type]
  /\ th' = [th EXCEPT ![t].pc = "a_ret", ![t].rv = "success"]
  /\ UNCHANGED <<log_pool, segment, manager, locks, history>>

\* *log_dscp = log_dsc; rv = M_R_SUCCESS; (AllocStore sets rv) unlock; return.
AllocRet(t) ==
  /\ th[t].pc = "a_ret"
  /\ logmgr_init_lock' = NOBODY
  /\ nret' = [nret EXCEPT ![th[t].dsc] = Inc(nret[th[t].dsc])]
  /\ th' = [th EXCEPT ![t] = IdleLocals]
  /\ UNCHANGED <<persistent, manager, mgr_mutex, created, bringups, nalloc,
                 ninit, crashed_alloc, calls_left>>

\* out (failure): unlock; return rv;
AllocOut(t) ==
  /\ th[t].pc = "a_out"
  /\ logmgr_init_lock' = NOBODY
  /\ th' = [th EXCEPT ![t] = IdleLocals]
  /\ UNCHANGED <<persistent, manager, mgr_mutex, history>>

(***************************************************************************)
(* Specifications                                                          *)
(***************************************************************************)
\* The steps inside the entry points.
Body(t) ==
  \/ InitLock(t)
  \/ InitCheck(t)
  \/ CreatePoolMap(t)
  \/ CreatePoolStore(t)
  \/ CreateDescriptors(t)
  \/ RegisterStatic(t)
  \/ Publish(t)
  \/ SetInitialized(t)
  \/ InitOut(t)
  \/ RecStart(t)
  \/ RecCollect(t)
  \/ RecSelect(t)
  \/ RecDo(t)
  \/ RecPrepareNext(t)
  \/ RecSplice(t)
  \/ RegCheck(t)
  \/ RegLock(t)
  \/ RegFind(t)
  \/ RegScan(t)
  \/ RegAlloc(t)
  \/ RegNext(t)
  \/ RegOut(t)
  \/ AllocLock(t)
  \/ AllocScan(t)
  \/ AllocBind(t)
  \/ AllocMove(t)
  \/ AllocInit(t)
  \/ AllocStore(t)
  \/ AllocRet(t)
  \/ AllocOut(t)

Step(t) ==
  \/ CallInit(t)
  \/ CallRegister(t)
  \/ CallRecovery(t)
  \/ CallAlloc(t)
  \/ Body(t)

\* One client thread calls the entry points one after the other; the
\* process may crash at any point and be started again.
Next == Step(1) \/ Crash

Spec == Init /\ [][Next]_vars

\* The same, with a thread that keeps running: a call that can take a step
\* eventually takes one.
FairSpec == Spec /\ WF_vars(Body(1))

\* Thread u is inside m_logmgr_do_recovery / m_logmgr_alloc_log.
InManualRecovery(u) ==
  th[u].pc \in {"c_start", "c_collect", "c_select", "c_do", "c_prep", "c_splice"}
    /\ th[u].cret = "idle"

InAlloc(u) ==
  th[u].pc \in {"a_lock", "a_scan", "a_bind", "a_move", "a_init", "a_store",
                "a_ret", "a_out"}

\* Manual recovery takes no lock: the callers keep it from overlapping an
\* allocation or another manual recovery.
ConcCallRecovery(t) ==
  /\ \A u \in Threads \ {t} : ~InManualRecovery(u) /\ ~InAlloc(u)
  /\ CallRecovery(t)

ConcCallAlloc(t) ==
  /\ \A u \in Threads \ {t} : ~InManualRecovery(u)
  /\ CallAlloc(t)

ConcStep(t) ==
  \/ CallInit(t)
  \/ CallRegister(t)
  \/ ConcCallRecovery(t)
  \/ ConcCallAlloc(t)
  \/ Body(t)

\* The persistent states a process can start from: the pool never created,
\* or created with the slots allocated so far tagged (allocation takes the
\* lowest FREE slot, and no tag goes back to FREE).
StartTags ==
  {f \in [Slots -> {LF_TYPE_FREE} \cup ClientTypes] :
     \A i, j \in Slots : (i < j /\ f[j] # LF_TYPE_FREE) => f[i] # LF_TYPE_FREE}

\* Under Spec the persistent tags stay within StartTags.
TagsInStart == tag \in StartTags

ConcInit ==
  /\ \/ /\ tag = [s \in Slots |-> LF_TYPE_FREE]
        /\ log_pool = "zero"
        /\ segment = FALSE
     \/ /\ tag \in StartTags
        /\ log_pool = "LOG_POOL_START"
        /\ segment = TRUE
  /\ crashed_alloc = NoCrashedAlloc
  /\ calls_left = [t \in Threads |-> IF t = 1 THEN MaxConcCalls ELSE MaxConcCalls - 1]
  /\ VolatileInit

\* The client threads call the entry points concurrently, a bounded number
\* of times each.
ConcNext == \E t \in Threads : ConcStep(t)

ConcSpec == ConcInit /\ [][ConcNext]_vars

(***************************************************************************)
(* Vocabulary of the properties                                            *)
(***************************************************************************)
InitPcs == {"i_lock", "i_check", "i_pool", "i_store", "i_dscs", "i_static",
            "i_publish", "i_flag", "i_out"}

RecPcs == {"c_start", "c_collect", "c_select", "c_do", "c_prep", "c_splice"}

RegPcs == {"r_check", "r_lock", "r_find", "r_scan", "r_alloc", "r_next",
           "r_out", "r_hang"}

AllocPcs == {"a_lock", "a_scan", "a_bind", "a_move", "a_init", "a_store",
             "a_ret", "a_out"}

\* The step ends the process (Crash or Abort) after the descriptors existed.
Died == created /\ ~created'

\* Thread t takes the step.
Stepped(t) == th'[t] # th[t]

\* Occurrences of descriptor d in list l.
Occ(l, d) == Cardinality({i \in 1..Len(l) : l[i] = d})

RECURSIVE SumOver(_, _)
SumOver(f, S) ==
  IF S = {} THEN 0
  ELSE LET x == CHOOSE y \in S : TRUE IN f[x] + SumOver(f, S \ {x})

\* Occurrences of d in the recovery lists of all threads.
RecOcc(d) == SumOver([t \in Threads |-> Occ(th[t].rlist, d)], Threads)

\* Thread t runs the manual entry point m_logmgr_do_recovery.
ManualRecovery(t) == th[t].pc \in RecPcs /\ th[t].cret = "idle"

(***************************************************************************)
(* C1  Partition invariant: once create_log_pool has built the             *)
(* descriptors, every slot's descriptor is on exactly one of the free,     *)
(* active, pending and recovery lists (once, in one list).                 *)
(***************************************************************************)
C1_Partition ==
  created =>
    \A d \in Slots :
      Occ(free_logs_list, d) + Occ(active_logs_list, d)
        + Occ(pending_logs_list, d) + RecOcc(d) = 1

\* All four kinds of list are in use: an active slot, a pending slot and a
\* slot in a recovery list.
C1_Witness ==
  /\ created
  /\ active_logs_list # <<>>
  /\ pending_logs_list # <<>>
  /\ \E t \in Threads : th[t].rlist # <<>>

SmallestFirst(l, d) ==
  \E i \in 1..Len(l) :
    /\ l[i] = d
    /\ logorder[d] # INV_LOG_ORDER
    /\ \A j \in 1..Len(l) :
         logorder[l[j]] # INV_LOG_ORDER =>
           /\ logorder[d] <= logorder[l[j]]
           /\ (j < i => logorder[d] < logorder[l[j]])

C3_RecoveryOrdering ==
  /\ [](\A t \in Threads :
          th[t].pc = "c_do" => SmallestFirst(th[t].rlist, th[t].sel))
  /\ [][\A t \in Threads :
          /\ (th[t].pc = "c_do" /\ Stepped(t) /\ ~Died) =>
                /\ th'[t].pc = "c_prep"
                /\ th'[t].sel = th[t].sel
                /\ logorder' = logorder
          /\ (th[t].pc = "c_prep" /\ Stepped(t) /\ ~Died) =>
                /\ th'[t].pc = "c_select"
                /\ \A d \in Slots \ {th[t].sel} : logorder'[d] = logorder[d]
          /\ (th'[t].pc = "c_select" /\ Stepped(t)) =>
                th[t].pc \in {"c_prep", "c_collect"}
       ]_vars

\* recovery_do is about to run on a descriptor that is not the first of the
\* recovery list, whose first descriptor still has an order.
C3_Witness ==
  \E t \in Threads :
    /\ th[t].pc = "c_do"
    /\ Len(th[t].rlist) >= 2
    /\ th[t].sel # th[t].rlist[1]
    /\ logorder[th[t].rlist[1]] # INV_LOG_ORDER

(***************************************************************************)
(* C4  Recovery completion: when do_recovery returns, every descriptor     *)
(* that was pending with recovery_init when it started is on the free      *)
(* list with order none and not on the pending list, and the recovery      *)
(* list is empty; the manual entry point included.                         *)
(***************************************************************************)
C4_RecoveryCompletion ==
  [][\A t \in Threads :
       (th[t].pc = "c_splice" /\ Stepped(t) /\ ~Died) =>
          /\ \A d \in th[t].snap :
               /\ InList(free_logs_list', d)
               /\ ~InList(pending_logs_list', d)
               /\ logorder'[d] = INV_LOG_ORDER
          /\ th'[t].rlist = <<>>
          /\ \A d \in Range(pending_logs_list') :
               ~(dsc_ops'[d] # NULL_OPS /\ HasRecoveryInit(dsc_ops'[d]))
    ]_vars

\* A manual run_recovery is about to return having recovered slots, bound
\* by a registration after bring-up, through at least one recovery step.
C4_Witness ==
  \E t \in Threads :
    /\ ManualRecovery(t)
    /\ th[t].pc = "c_splice"
    /\ Cardinality(th[t].snap) >= 2
    /\ pending_logs_list # <<>>

(***************************************************************************)
(* C5  Durability ordering of allocation.                                  *)
(***************************************************************************)
\* Thread t has chosen a descriptor and ops->init has not completed on it.
BeforeInitDone(t) == th[t].pc \in {"a_bind", "a_move", "a_init"}

\* The step on which a new process classifies the slots, a crash having
\* interrupted an allocation between ops->init and the tag store.
ClassifiesAfterCrash == ~created /\ created' /\ crashed_alloc.slot # NULL_DSC

\* C5 as claimed: on both selection paths (and for a type id other than
\* LF_TYPE_FREE) the persisted tag of the chosen slot is not type_id before
\* ops->init has completed, and after a crash between init and the tag
\* store the slot is classified on the free list.
C5_Original ==
  /\ [](\A t \in Threads :
          (BeforeInitDone(t) /\ th[t].type # LF_TYPE_FREE) =>
             tag[th[t].dsc] # th[t].type)
  /\ [][ClassifiesAfterCrash =>
          /\ InList(free_logs_list', crashed_alloc.slot)
          /\ ~InList(pending_logs_list', crashed_alloc.slot)]_vars

\* C5 amended: on the FREE-slot path the persisted tag stays FREE until the
\* store that follows ops->init, and a crash between the two leaves a slot
\* that the next bring-up puts on the free list; on the tag-match path the
\* tag equals type_id from the start, and the next bring-up puts the slot
\* on the pending list.
C5_DurabilityOrdering ==
  /\ [](\A t \in Threads :
          /\ (th[t].path = "notype" /\ (BeforeInitDone(t) \/ th[t].pc = "a_store")) =>
               /\ tag[th[t].dsc] = LF_TYPE_FREE
               /\ th[t].type # LF_TYPE_FREE
          /\ (th[t].path = "match" /\ (BeforeInitDone(t) \/ th[t].pc = "a_store")) =>
               tag[th[t].dsc] = th[t].type
          /\ (th[t].pc = "a_ret" => /\ tag[th[t].dsc] = th[t].type
                                     /\ ninit[th[t].dsc] >= 1))
  /\ [][ClassifiesAfterCrash =>
          /\ crashed_alloc.path = "notype" =>
               /\ InList(free_logs_list', crashed_alloc.slot)
               /\ ~InList(pending_logs_list', crashed_alloc.slot)
          /\ crashed_alloc.path = "match" =>
               /\ InList(pending_logs_list', crashed_alloc.slot)
               /\ ~InList(free_logs_list', crashed_alloc.slot)]_vars

\* The next process is about to classify the slots after a crash that hit a
\* FREE-slot allocation between ops->init and the tag store.
C5_Witness ==
  /\ crashed_alloc.path = "notype"
  /\ \E t \in Threads : th[t].pc = "i_dscs"

(***************************************************************************)
(* C6  Allocation preference: when a free descriptor carries the requested *)
(* tag, the first such in free-list order is chosen and returned, with no  *)
(* ops->alloc call and no registry lookup; a FREE-tagged descriptor is     *)
(* chosen only when no free descriptor carries the requested tag.          *)
(***************************************************************************)
IsFirstTagged(l, d, ty) ==
  \E i \in 1..Len(l) :
    /\ l[i] = d
    /\ tag[d] = ty
    /\ \A j \in 1..(i - 1) : tag[l[j]] # ty

C6_AllocationPreference ==
  /\ [](\A t \in Threads :
          (th[t].pc = "a_init" /\ th[t].path = "match" /\ th[t].type # LF_TYPE_FREE) =>
             /\ dsc_ops[th[t].dsc] # NULL_OPS
             /\ HasInit(dsc_ops[th[t].dsc]))
  /\ [][\A t \in Threads :
          /\ (th[t].pc = "a_scan" /\ Stepped(t) /\ th'[t].pc # "idle") =>
                /\ (\E d \in Range(free_logs_list) : tag[d] = th[t].type) =>
                      /\ th'[t].path = "match"
                      /\ th'[t].pc = "a_move"
                      /\ IsFirstTagged(free_logs_list, th'[t].dsc, th[t].type)
                /\ th'[t].path = "notype" =>
                      /\ \A d \in Range(free_logs_list) : tag[d] # th[t].type
                      /\ IsFirstTagged(free_logs_list, th'[t].dsc, LF_TYPE_FREE)
          /\ (th[t].path = "match" /\ Stepped(t) /\ ~Died) =>
                /\ nalloc' = nalloc
                /\ th'[t].pc # "a_bind"
                /\ th'[t].pc # "idle" => th'[t].dsc = th[t].dsc
                /\ th'[t].pc = "idle" =>
                      /\ th[t].pc = "a_ret"
                      /\ nret'[th[t].dsc] = nret[th[t].dsc] + 1
       ]_vars

\* An allocation by tag match is about to return a descriptor that is not
\* the head of the free list, while a FREE-tagged descriptor was available.
C6_Witness ==
  \E t \in Threads :
    /\ th[t].pc = "a_ret"
    /\ th[t].path = "match"
    /\ \E d \in Range(free_logs_list) : tag[d] = LF_TYPE_FREE
    /\ \E d \in Range(free_logs_list) : tag[d] \notin {LF_TYPE_FREE, th[t].type}

(***************************************************************************)
(* C7  Unknown-type allocation is side-effect free: an allocate_log of a   *)
(* type with no registry entry changes no list, tag, operations table or   *)
(* log object, and returns failure.                                        *)
(***************************************************************************)
UnknownTypeStep(t) ==
  /\ th[t].pc \in AllocPcs
  /\ logmgr # "NULL"
  /\ ~Registered(th[t].type)
  /\ Stepped(t)
  /\ ~Died

C7_Original ==
  [][\A t \in Threads :
       UnknownTypeStep(t) =>
          /\ UNCHANGED <<free_logs_list, active_logs_list, pending_logs_list,
                         tag, dsc_ops, dsc_log>>
          /\ th'[t].pc = "idle" => th[t].pc = "a_out" /\ th[t].rv = "failure"
    ]_vars

\* The same for the type ids other than LF_TYPE_FREE.
C7_NonFreeTypes ==
  [][\A t \in Threads :
       (UnknownTypeStep(t) /\ th[t].type # LF_TYPE_FREE) =>
          /\ UNCHANGED <<free_logs_list, active_logs_list, pending_logs_list,
                         tag, dsc_ops, dsc_log>>
          /\ th'[t].pc = "idle" => th[t].pc = "a_out" /\ th[t].rv = "failure"
    ]_vars

(***************************************************************************)
(* C8  Re-registration is a no-op: register_log_type of a type already in  *)
(* the registry returns success, leaves the registry with one entry for    *)
(* the type holding the first operations table, calls ops->alloc on no     *)
(* descriptor and changes no descriptor's operations table.                *)
(***************************************************************************)
C8_ReRegistration ==
  /\ [](\A i, j \in 1..Len(known_logtypes_list) :
          known_logtypes_list[i].type = known_logtypes_list[j].type => i = j)
  /\ [][\A t \in Threads :
          (th[t].pc \in {"r_lock", "r_find", "r_out"} /\ Registered(th[t].type)
             /\ Stepped(t) /\ ~Died) =>
             /\ UNCHANGED <<known_logtypes_list, nalloc, dsc_ops, dsc_log,
                            free_logs_list, active_logs_list, pending_logs_list>>
             /\ th'[t].pc \in {"r_find", "r_out", "idle"}
             /\ th[t].pc = "r_find" => th'[t].rv = "success"
             /\ th'[t].pc = "idle" => th[t].rv = "success"
       ]_vars

\* A registration with a different table than the registered one is about
\* to return, a pending descriptor of the type being bound already.
C8_Witness ==
  \E t \in Threads :
    /\ th[t].pc = "r_out"
    /\ Registered(th[t].type)
    /\ Lookup(th[t].type) # th[t].ops
    /\ \E d \in Range(pending_logs_list) :
         /\ tag[d] = th[t].type
         /\ nalloc[d] = 1
         /\ dsc_ops[d] = Lookup(th[t].type)

(***************************************************************************)
(* C9  Recovery leaves unknown-type pending slots alone: no step of        *)
(* do_recovery invokes a callback on, or moves, a pending descriptor whose *)
(* tag has no registry entry; it stays pending with its tag and order.     *)
(***************************************************************************)
C9_UnknownTypePending ==
  /\ [](\A d \in Range(pending_logs_list) :
          ~Registered(tag[d]) => dsc_ops[d] = NULL_OPS)
  /\ [][\A t \in Threads : \A d \in Range(pending_logs_list) :
          (th[t].pc \in RecPcs /\ ~Registered(tag[d]) /\ Stepped(t) /\ ~Died) =>
             /\ InList(pending_logs_list', d)
             /\ ~InList(th'[t].rlist, d)
             /\ th'[t].sel # d
             /\ tag'[d] = tag[d]
             /\ logorder'[d] = logorder[d]
             /\ dsc_ops'[d] = dsc_ops[d]
       ]_vars

\* A manual run_recovery has collected descriptors and passed over a
\* pending descriptor of an unregistered type.
C9_Witness ==
  \E t \in Threads :
    /\ ManualRecovery(t)
    /\ th[t].pc = "c_splice"
    /\ th[t].rlist # <<>>
    /\ \E d \in Range(pending_logs_list) : ~Registered(tag[d])

(***************************************************************************)
(* C10  Allocation is serialized: whatever the interleaving of concurrent  *)
(* allocate_log calls, no descriptor is returned by two successful calls,  *)
(* and the active list holds as many descriptors as allocations succeeded  *)
(* (counting those that have moved their descriptor and not yet returned). *)
(***************************************************************************)
Moved == {t \in Threads : th[t].pc \in {"a_init", "a_store", "a_ret"}}

C10_AllocationSerialized ==
  /\ \A d \in Slots : nret[d] <= 1 /\ Occ(active_logs_list, d) <= 1
  /\ \A t, u \in Moved : t # u => th[t].dsc # th[u].dsc
  /\ \A t \in Moved : nret[th[t].dsc] = 0
  /\ Len(active_logs_list) = SumOver(nret, Slots) + Cardinality(Moved)

\* A second allocation is about to return, the first thread's allocation
\* having returned, every thread having used its calls.
C10_Witness ==
  /\ \E u \in Threads : th[u].pc = "a_ret"
  /\ SumOver(nret, Slots) = 1
  /\ Len(active_logs_list) = 2
  /\ \A t \in Threads : calls_left[t] = 0

(***************************************************************************)
(* C11  Pool base publication: the persisted pool base is 0 or the address *)
(* of the pool mapping, and once create_log_pool has passed its first half *)
(* it is that address, whether the mapping was created by this process or  *)
(* its segment was found already existing.                                 *)
(***************************************************************************)
C11_Original ==
  /\ log_pool \in {"zero", "LOG_POOL_START"}
  /\ created => log_pool = "LOG_POOL_START"

(***************************************************************************)
(* C12  Descriptor classification at bring-up: the step that builds the    *)
(* descriptors leaves, for every slot, one descriptor with no log object,  *)
(* no operations table and order none, on the free list if and only if the *)
(* slot's persisted tag is FREE and on the pending list otherwise; the     *)
(* active list is empty.                                                   *)
(***************************************************************************)
C12_Classification ==
  [][\A t \in Threads :
       (th[t].pc = "i_dscs" /\ th'[t].pc = "i_static") =>
          /\ \A d \in Slots :
               /\ ~dsc_log'[d]
               /\ dsc_ops'[d] = NULL_OPS
               /\ logorder'[d] = INV_LOG_ORDER
               /\ Occ(free_logs_list', d) + Occ(pending_logs_list', d) = 1
               /\ InList(free_logs_list', d) <=> tag[d] = LF_TYPE_FREE
               /\ InList(pending_logs_list', d) <=> tag[d] # LF_TYPE_FREE
          /\ active_logs_list' = <<>>
          /\ \A u \in Threads : th'[u].rlist = <<>>
          /\ tag' = tag
    ]_vars

\* The descriptors have just been built from a pool that holds FREE slots
\* and slots of two different types, none of them registered.
C12_Witness ==
  \E t \in Threads :
    /\ th[t].pc = "i_static"
    /\ free_logs_list # <<>>
    /\ \E d, e \in Range(pending_logs_list) :
         /\ tag[d] # tag[e]
         /\ ~Registered(tag[d])
         /\ ~Registered(tag[e])

(***************************************************************************)
(* C13  Successful allocation postcondition: when allocate_log(type_id)    *)
(* returns success, the returned descriptor was on the free list when the  *)
(* call chose it and is now on the active list only, its persisted tag is  *)
(* type_id, its operations table is the registry's for type_id, ops->init  *)
(* ran on it once, during the call; no step of the call changes the list   *)
(* membership or the tag of another descriptor.                            *)
(***************************************************************************)
SameMembership(d) ==
  /\ InList(free_logs_list', d) <=> InList(free_logs_list, d)
  /\ InList(active_logs_list', d) <=> InList(active_logs_list, d)
  /\ InList(pending_logs_list', d) <=> InList(pending_logs_list, d)

C13_AllocationPostcondition ==
  /\ [](\A t \in Threads :
          /\ th[t].pc = "a_ret" =>
               LET d == th[t].dsc IN
               /\ th[t].rv = "success"
               /\ Occ(active_logs_list, d) = 1
               /\ ~InList(free_logs_list, d)
               /\ ~InList(pending_logs_list, d)
               /\ tag[d] = th[t].type
               /\ Registered(th[t].type)
               /\ dsc_ops[d] = Lookup(th[t].type)
               /\ ninit[d] = 1
          /\ th[t].pc \in {"a_bind", "a_move", "a_init"} => ninit[th[t].dsc] = 0)
  /\ [][\A t \in Threads :
          (th[t].pc \in AllocPcs /\ logmgr # "NULL" /\ Stepped(t) /\ ~Died) =>
             /\ th[t].pc = "a_scan" =>
                  /\ UNCHANGED <<free_logs_list, active_logs_list,
                                 pending_logs_list, tag, ninit>>
                  /\ th'[t].dsc # NULL_DSC => InList(free_logs_list, th'[t].dsc)
             /\ th[t].pc # "a_scan" =>
                  \A e \in Slots \ {th[t].dsc} :
                    /\ SameMembership(e)
                    /\ tag'[e] = tag[e]
                    /\ ninit'[e] = ninit[e]
             /\ th'[t].pc = "idle" =>
                  \/ th[t].pc = "a_ret"
                  \/ th[t].pc = "a_out" /\ th[t].rv = "failure"
       ]_vars

\* A FREE-slot allocation is about to return success while other
\* descriptors are active, free and pending.
C13_Witness ==
  \E t \in Threads :
    /\ th[t].pc = "a_ret"
    /\ th[t].path = "notype"
    /\ Len(active_logs_list) >= 2
    /\ free_logs_list # <<>>

(***************************************************************************)
(* C14  Recovery re-run is a no-op: a run of do_recovery on a constructed  *)
(* manager that starts with no pending descriptor whose operations table   *)
(* exposes recovery_init invokes no recovery callback and leaves the free, *)
(* active and pending lists, the persisted tags and the recovery orders    *)
(* unchanged.                                                              *)
(***************************************************************************)
\* No pending descriptor has an operations table with recovery_init.
NothingToRecover ==
  \A d \in Range(pending_logs_list) :
    dsc_ops[d] = NULL_OPS \/ ~HasRecoveryInit(dsc_ops[d])

\* Thread t is in a run of do_recovery that started with nothing to recover.
NoOpRun(t) ==
  /\ th[t].pc \in RecPcs
  /\ ~(th[t].cret = "idle" /\ logmgr = "NULL")
  /\ IF th[t].pc = "c_start" THEN NothingToRecover ELSE th[t].snap = {}

C14_RecoveryRerun ==
  [][\A t \in Threads :
       (NoOpRun(t) /\ Stepped(t) /\ ~Died) =>
          /\ UNCHANGED <<free_logs_list, active_logs_list, pending_logs_list,
                         tag, logorder, dsc_ops, dsc_log, known_logtypes_list>>
          /\ th'[t].pc \notin {"c_do", "c_prep"}
          /\ th'[t].rlist = <<>>
          /\ th'[t].sel = NULL_DSC
          /\ th'[t].pc \in RecPcs => NoOpRun(t)'
    ]_vars

\* A manual run_recovery that found nothing to recover is about to return:
\* an earlier run in this process has put a recovered slot on the free
\* list, and a descriptor without recovery_init is still pending.
C14_Witness ==
  \E t \in Threads :
    /\ ManualRecovery(t)
    /\ th[t].pc = "c_splice"
    /\ th[t].snap = {}
    /\ \E d \in Range(free_logs_list) : tag[d] # LF_TYPE_FREE
    /\ \E d \in Range(pending_logs_list) : dsc_ops[d] # NULL_OPS
    /\ active_logs_list # <<>>

(***************************************************************************)
(* C15  Lazy creation on first use: every step on which an entry point     *)
(* reads or changes the registry or a descriptor list is taken with the    *)
(* manager constructed and published (logmgr not NULL), whichever entry    *)
(* point is the first one called in the process.                           *)
(***************************************************************************)
\* Thread t is at a step that reads the manager through logmgr.
ReadsManager(t) ==
  \/ th[t].pc = "c_start" /\ th[t].cret = "idle"
  \/ th[t].pc \in {"r_lock", "r_find", "r_scan", "r_alloc", "r_next", "r_out"}
  \/ th[t].pc \in {"a_scan", "a_bind", "a_move"}

C15_Original ==
  [][\A t \in Threads : (ReadsManager(t) /\ Stepped(t)) => logmgr = "mgr"]_vars

\* The same for register_log_type alone, which tests logmgr and runs
\* bring-up first.
C15_RegisterPath ==
  [][\A t \in Threads :
       (th[t].pc \in {"r_lock", "r_find", "r_scan", "r_alloc", "r_next", "r_out"}
          /\ Stepped(t)) => logmgr = "mgr"]_vars

(***************************************************************************)
(* C16  The manager's mutex protects registry and list mutation: after     *)
(* bring-up, a step that adds a registry entry or moves a descriptor       *)
(* between lists is taken by the holder of mgr->mutex, and no thread is in *)
(* the critical section of register_logtype while another is in the part   *)
(* of allocate_log or run_recovery that reads or changes the registry or   *)
(* the lists.                                                              *)
(***************************************************************************)
\* Thread t is inside the critical section of a locked register_logtype.
InRegisterSection(t) ==
  th[t].pc \in {"r_find", "r_scan", "r_alloc", "r_next", "r_out"}

\* Thread u is where allocate_log or run_recovery reads or changes the
\* registry or a descriptor list.
TouchesManager(u) ==
  \/ th[u].pc \in {"a_scan", "a_bind", "a_move"}
  \/ ManualRecovery(u) /\ th[u].pc \in {"c_collect", "c_splice"}

C16_Original ==
  /\ [](\A t, u \in Threads :
          (t # u /\ InRegisterSection(t)) => ~TouchesManager(u))
  /\ [][\A t \in Threads :
          (logmgr_initialized /\ logmgr_initialized' /\ Stepped(t)
             /\ <<known_logtypes_list, free_logs_list, active_logs_list,
                  pending_logs_list>>' #
                <<known_logtypes_list, free_logs_list, active_logs_list,
                  pending_logs_list>>) => mgr_mutex = t]_vars

(***************************************************************************)
(* C17  First registration binds exactly the matching pending slots: a     *)
(* register_log_type(type_id, ops) that inserts a registry entry sets ops  *)
(* on every pending descriptor tagged type_id and calls ops->alloc on it   *)
(* once; it touches no descriptor with another tag or on the free or       *)
(* active list, and moves no descriptor.                                   *)
(***************************************************************************)
\* Thread t is in the pending-list walk of a registration that inserted.
InBindingWalk(t) == th[t].pc \in {"r_scan", "r_alloc", "r_next"}

\* Descriptor d is one the registration of thread t has to bind.
ToBind(t, d) == InList(pending_logs_list, d) /\ tag[d] = th[t].type

C17_FirstRegistration ==
  /\ [](\A t \in Threads :
          /\ (th[t].pc = "r_scan" /\ th[t].dsc = NULL_DSC) =>
               \A d \in Slots :
                 ToBind(t, d) => /\ dsc_ops[d] = th[t].ops
                                 /\ dsc_log[d]
                                 /\ nalloc[d] = 1
          /\ (th[t].pc = "r_scan" /\ th[t].dsc # NULL_DSC /\ ToBind(t, th[t].dsc)) =>
               /\ dsc_ops[th[t].dsc] = NULL_OPS
               /\ nalloc[th[t].dsc] = 0
          /\ InBindingWalk(t) =>
               /\ Registered(th[t].type)
               /\ Lookup(th[t].type) = th[t].ops)
  /\ [][\A t \in Threads :
          /\ (th[t].pc = "r_find" /\ ~Registered(th[t].type) /\ Stepped(t) /\ ~Died) =>
                /\ known_logtypes_list' =
                     Append(known_logtypes_list, [type |-> th[t].type, ops |-> th[t].ops])
                /\ UNCHANGED <<free_logs_list, active_logs_list, pending_logs_list,
                               tag, dsc_ops, dsc_log, nalloc>>
          /\ (InBindingWalk(t) /\ Stepped(t) /\ ~Died) =>
                /\ UNCHANGED <<free_logs_list, active_logs_list, pending_logs_list,
                               tag, known_logtypes_list, logorder>>
                /\ \A d \in Slots :
                     ~ToBind(t, d) => /\ dsc_ops'[d] = dsc_ops[d]
                                      /\ dsc_log'[d] = dsc_log[d]
                                      /\ nalloc'[d] = nalloc[d]
                /\ th'[t].pc = "idle" => FALSE
          /\ (th[t].pc = "r_out" /\ Stepped(t) /\ ~Died) =>
                /\ th[t].rv = "success"
                /\ UNCHANGED <<free_logs_list, active_logs_list, pending_logs_list,
                               tag, known_logtypes_list, dsc_ops, dsc_log, nalloc>>
       ]_vars

\* A first registration has walked a pending list that holds two
\* descriptors of its type and one of another type, and bound the two.
C17_Witness ==
  \E t \in Threads :
    /\ th[t].pc = "r_scan"
    /\ th[t].dsc = NULL_DSC
    /\ Cardinality({d \in Slots : ToBind(t, d) /\ nalloc[d] = 1}) = 2
    /\ \E e \in Range(pending_logs_list) :
         tag[e] # th[t].type /\ dsc_ops[e] = NULL_OPS

(***************************************************************************)
(* C18  No cross-type reuse: allocate_log(type_id) chooses, and so         *)
(* returns, only a descriptor whose persisted tag is type_id or FREE, and  *)
(* the tag stays as it was until the store that ends the call; when every  *)
(* free descriptor carries another, non-FREE tag, the call returns failure *)
(* and changes no list, tag or operations table.                           *)
(***************************************************************************)
\* The free list holds neither a descriptor tagged ty nor a FREE one.
OnlyOtherTypes(ty) ==
  \A d \in Range(free_logs_list) : tag[d] \notin {ty, LF_TYPE_FREE}

C18_NoCrossTypeReuse ==
  /\ [](\A t \in Threads :
          (th[t].pc \in {"a_bind", "a_move", "a_init", "a_store"}) =>
             tag[th[t].dsc] \in {th[t].type, LF_TYPE_FREE})
  /\ [][\A t \in Threads :
          (th[t].pc \in AllocPcs /\ logmgr # "NULL" /\ Stepped(t) /\ ~Died) =>
             /\ th[t].pc # "a_store" => tag' = tag
             /\ (th[t].pc = "a_scan" /\ OnlyOtherTypes(th[t].type)) =>
                   /\ th'[t].pc = "a_out"
                   /\ th'[t].rv = "failure"
                   /\ th'[t].dsc = NULL_DSC
             /\ (th[t].pc \in {"a_lock", "a_scan", "a_out"}) =>
                   UNCHANGED <<free_logs_list, active_logs_list,
                               pending_logs_list, tag, dsc_ops, dsc_log,
                               known_logtypes_list, nret>>
             /\ (th[t].pc = "a_out" /\ th[t].dsc = NULL_DSC) =>
                   /\ th[t].rv = "failure"
                   /\ th'[t].pc = "idle"
       ]_vars

\* An allocation is about to return failure although the free list holds
\* descriptors: all of them carry another type's tag.
C18_Witness ==
  \E t \in Threads :
    /\ th[t].pc = "a_out"
    /\ th[t].rv = "failure"
    /\ free_logs_list # <<>>
    /\ Registered(th[t].type)
    /\ OnlyOtherTypes(th[t].type)

(***************************************************************************)
(* C19  Recovery terminates as a k-way merge: with logs whose              *)
(* recovery_prepare_next reaches order none after finitely many steps, a   *)
(* run of do_recovery ends; recovery_do runs on the steps of each slot's   *)
(* recovery sequence in their order, once each, and at the end of the      *)
(* selection loop it has run on all of them; it never runs on a slot whose *)
(* recovery_init left order none.                                          *)
(***************************************************************************)
IsPrefix(a, b) ==
  /\ Len(a) <= Len(b)
  /\ \A i \in 1..Len(a) : a[i] = b[i]

C19_RecoveryTermination ==
  /\ [](\A t \in Threads : \A d \in Slots :
          /\ IsPrefix(th[t].done[d], th[t].given[d])
          /\ th[t].pc = "c_splice" =>
               /\ th[t].done[d] = th[t].given[d]
               /\ InList(th[t].rlist, d) => logorder[d] = INV_LOG_ORDER
          /\ ~InList(th[t].rlist, d) => th[t].done[d] = <<>>)
  /\ \A t \in Threads : (th[t].pc \in RecPcs) ~> (th[t].pc \notin RecPcs)

\* The selection loop of a manual run_recovery has ended after merging two
\* slots of two steps each with a slot whose recovery_init left order none.
C19_Witness ==
  \E t \in Threads :
    /\ ManualRecovery(t)
    /\ th[t].pc = "c_splice"
    /\ Len(th[t].rlist) = 3
    /\ Cardinality({d \in Slots : Len(th[t].done[d]) = 2}) = 2
    /\ \E d \in Slots : th[t].given[d] = <<>>

(***************************************************************************)
(* C20  Alloc-before-recovery: whenever do_recovery invokes recovery_init  *)
(* on a descriptor (and takes it into the recovery list), ops->alloc has   *)
(* completed on that descriptor, in every interleaving of a client's       *)
(* register_log_type with a manual run_recovery.                           *)
(***************************************************************************)
C20_Original ==
  [][\A t \in Threads : \A d \in Slots :
       (th[t].pc = "c_collect" /\ ~InList(th[t].rlist, d)
          /\ InList(th'[t].rlist, d)) =>
          /\ dsc_log[d]
          /\ nalloc[d] >= 1
    ]_vars

=============================================================================
